---- MODULE Spec2Model ----
(***************************************************************************)
(* A model of the guard watchdog of sysproxy-rs (src/src/guard.rs):        *)
(* GuardMonitor's atomic lifecycle state, its control calls (start, stop,  *)
(* set_interval, set_guard_type, drop), the background tasks it spawns     *)
(* (run_monitor_loop) and the tokio Notify they share.                     *)
(*                                                                         *)
(* Every atomic load, store or compare-exchange of guard_stat is one step, *)
(* so that control calls running on several threads interleave with each   *)
(* other and with the steps of the spawned tasks exactly where the code    *)
(* lets them.  Time is abstracted: an interval tick may fire whenever a    *)
(* task is parked in its select, and start()'s 50 ms sleep is one step.    *)
(***************************************************************************)
EXTENDS Integers, Sequences, FiniteSets, TLC

\* ------------------------------------------------------------------ bounds
\* Number of background tasks one run may spawn.
MaxTasks == 2
\* Number of threads that issue control calls on the monitor.
NThreads == 2
\* Number of control calls the bounded embedder of FairSpec issues.
MaxCalls == 5
\* Number of control calls the single owner of SpecOwner issues.
MaxOwnerCalls == 3

Tasks == 1..MaxTasks
Threads == 1..NThreads

\* ------------------------------------------------------------ data types
\* GuardState, the enum, and its u8 representation.
U8Max == 255
GuardStates == {"Running", "Stopped", "NeedRestart", "Pending"}

to_u8(s) ==
    CASE s = "Running" -> 0
      [] s = "Stopped" -> 1
      [] s = "NeedRestart" -> 2
      [] s = "Pending" -> 3

\* Mutant of from_u8: only the two low bits of the code are looked at.
FromU8LowBits(value) ==
    CASE value % 4 = 0 -> "Running"
      [] value % 4 = 1 -> "Stopped"
      [] value % 4 = 2 -> "NeedRestart"
      [] value % 4 = 3 -> "Pending"

from_u8(value) ==
    CASE value = 0 -> "Running"
      [] value = 1 -> "Stopped"
      [] value = 2 -> "NeedRestart"
      [] value = 3 -> "Pending"
      [] OTHER -> "Stopped"

is_running(s) == s = "Running"
is_stopped(s) == s = "Stopped"
is_need_restart(s) == s = "NeedRestart"
is_pendding(s) == s = "Pending"

\* GuardType: None, Sysproxy(v), Autoproxy(v).  A Sysproxy or Autoproxy value
\* is compared as a whole (derived PartialEq), so a small integer stands for
\* one value of the struct.
ProxyValues == {1, 2}
GT_None == [kind |-> "None", v |-> 0]
GT_Sysproxy(x) == [kind |-> "Sysproxy", v |-> x]
GT_Autoproxy(x) == [kind |-> "Autoproxy", v |-> x]
GuardTypes == {GT_None, GT_Sysproxy(1), GT_Sysproxy(2), GT_Autoproxy(1)}
\* Durations, in milliseconds.
Intervals == {50, 100}

\* TaskConfig, the snapshot a task owns; NoConfig for a task that does not
\* exist (not spawned yet, or returned).
TaskConfig(g, i) == [guard_type |-> g, interval |-> i]
NoConfig == [guard_type |-> GT_None, interval |-> 0]

\* What a task did last in its current loop iteration: nothing yet, a tick
\* whose check was skipped (GuardType::None), or a collaborator get / set with
\* its outcome and the value returned / passed.
NoIo == [call |-> "none", ok |-> TRUE, v |-> 0]
IoSkip == [call |-> "skip", ok |-> TRUE, v |-> 0]
IoGet(ok, x) == [call |-> "get", ok |-> ok, v |-> IF ok THEN x ELSE 0]
IoSet(ok, x) == [call |-> "set", ok |-> ok, v |-> x]

\* A conversion of GuardState under examination: the u8 given to from_u8, the
\* state it returned, and the u8 that to_u8 made of that state (NoCode until
\* to_u8 has been applied).
NoCode == -1
NoConv == [value |-> NoCode, state |-> "-", code |-> NoCode]

\* ----------------------------------------------------- linux.rs, the data
\* Texts (command arguments and command output) are sequences of characters.
Quote == "'"
Newline == "\n"
ModeManual == <<"m", "a", "n", "u", "a", "l">>
ModeNone == <<"n", "o", "n", "e">>
ModeAuto == <<"a", "u", "t", "o">>
Modes == {ModeManual, ModeNone, ModeAuto}
DigitChars == <<"0", "1", "2", "3", "4", "5", "6", "7", "8", "9">>

U16Max == 65535

\* The hosts and ports of the Sysproxy values examined, and the services.
Hosts == {<<>>, <<"a">>, <<"b">>}
Ports == {8080, U16Max}
Services == {"socks", "https", "http"}
Sysproxies == [enable : BOOLEAN, host : Hosts, port : Ports]

\* The keys as a fresh session holds them.
DefaultDb ==
    [mode |-> ModeNone,
     socks |-> [host |-> <<>>, port |-> 0],
     https |-> [host |-> <<>>, port |-> 0],
     http |-> [host |-> <<>>, port |-> 0]]

NoSet == [ok |-> FALSE, enable |-> FALSE, host |-> <<>>, port |-> 0]
NoGet == [res |-> "-", enable |-> FALSE, host |-> <<>>, port |-> 0]
GetErr == [res |-> "Err", enable |-> FALSE, host |-> <<>>, port |-> 0]
NoNapi == [from |-> "-", port |-> 0, hi |-> 0, lo |-> 0, back |-> NoCode]

\* format!("'{}'", value)
Quoted(text) == <<Quote>> \o text \o <<Quote>>

\* format!("{}", port): the decimal digits of a u16.
RECURSIVE to_string(_)
to_string(n) ==
    IF n < 10 THEN <<DigitChars[n + 1]>>
    ELSE to_string(n \div 10) \o <<DigitChars[(n % 10) + 1]>>

IsDigit(c) == \E d \in 1..10 : DigitChars[d] = c
DigitValue(c) == (CHOOSE d \in 1..10 : DigitChars[d] = c) - 1

\* The number a text of digits denotes, NoCode when it is not one or is too
\* long to be a 16-bit port.
RECURSIVE ParseDigits(_)
ParseDigits(text) ==
    IF text = <<>> \/ Len(text) > 5 THEN NoCode
    ELSE IF ~IsDigit(text[Len(text)]) THEN NoCode
    ELSE IF Len(text) = 1 THEN DigitValue(text[1])
    ELSE LET high == ParseDigits(SubSeq(text, 1, Len(text) - 1)) IN
            IF high = NoCode THEN NoCode
            ELSE high * 10 + DigitValue(text[Len(text)])

\* str::parse::<u16>
parse_u16(text) ==
    LET n == ParseDigits(text) IN IF n = NoCode \/ n > U16Max THEN NoCode ELSE n

\* str::trim
IsSpace(c) == c \in {" ", Newline}
RECURSIVE trim(_)
trim(text) ==
    IF text = <<>> THEN text
    ELSE IF IsSpace(Head(text)) THEN trim(Tail(text))
    ELSE IF IsSpace(text[Len(text)]) THEN trim(SubSeq(text, 1, Len(text) - 1))
    ELSE text

\* strip_str: strip_prefix('\'').unwrap_or(text).strip_suffix('\'')
\* .unwrap_or(text)
strip_str(text) ==
    LET inner == IF text # <<>> /\ Head(text) = Quote THEN Tail(text) ELSE text IN
        IF inner # <<>> /\ inner[Len(inner)] = Quote
        THEN SubSeq(inner, 1, Len(inner) - 1)
        ELSE text

\* One `gsettings set` command: the schema ("mode" for the proxy schema
\* itself, or a service), the key and the value text.
Cmd(schema, key, text) == [schema |-> schema, key |-> key, text |-> text]

\* `gsettings set`: the value text is parsed by the key's type (a quoted
\* string, or an integer within the port range) and stored; a text that does
\* not parse leaves the key alone, the command's exit status being ignored.
gsettings_set(db, cmd) ==
    LET text == cmd.text
        isString == Len(text) >= 2 /\ Head(text) = Quote /\ text[Len(text)] = Quote
        string == SubSeq(text, 2, Len(text) - 1)
    IN  IF cmd.schema = "mode"
        THEN IF isString /\ string \in Modes THEN [db EXCEPT !.mode = string] ELSE db
        ELSE IF cmd.key = "host"
        THEN IF isString THEN [db EXCEPT ![cmd.schema].host = string] ELSE db
        ELSE IF parse_u16(text) # NoCode
             THEN [db EXCEPT ![cmd.schema].port = parse_u16(text)] ELSE db

\* `gsettings get`: the stored value printed as text, a line.
gsettings_get(db, schema, key) ==
    IF schema = "mode" THEN Quoted(db.mode) \o <<Newline>>
    ELSE IF key = "host" THEN Quoted(db[schema].host) \o <<Newline>>
    ELSE to_string(db[schema].port) \o <<Newline>>

\* linux.rs set_enable, the arm of the other desktops (lines 167-172).
set_enable(p) ==
    <<Cmd("mode", "mode", IF p.enable THEN Quoted(ModeManual) ELSE Quoted(ModeNone))>>

\* linux.rs set_proxy, the arm of the other desktops (lines 390-408).
set_proxy(p, service) ==
    <<Cmd(service, "host", Quoted(p.host)), Cmd(service, "port", to_string(p.port))>>

\* Sysproxy::set_system_proxy (lines 35-47): the commands it runs, in order.
set_system_proxy(p) ==
    set_enable(p)
        \o (IF p.enable
            THEN set_proxy(p, "socks") \o set_proxy(p, "https") \o set_proxy(p, "http")
            ELSE <<>>)

\* The keys after the first k commands have run.
RECURSIVE RunCmds(_, _, _)
RunCmds(db, cmds, k) ==
    IF k = 0 THEN db ELSE gsettings_set(RunCmds(db, cmds, k - 1), cmds[k])

\* linux.rs get_enable, the arm of the other desktops (lines 70-76).
get_enable(db) == trim(gsettings_get(db, "mode", "mode")) = Quoted(ModeManual)

\* linux.rs get_proxy, the arm of the other desktops (lines 444-466).
get_proxy(db, service) ==
    LET host == strip_str(trim(gsettings_get(db, service, "host")))
        port == parse_u16(trim(gsettings_get(db, service, "port")))
    IN  [host |-> host, port |-> IF port = NoCode THEN 80 ELSE port]

\* Mutant of get_system_proxy: the http values are preferred to the https ones.
GetPrefersHttp(db) ==
    LET socks == get_proxy(db, "socks")
        https == get_proxy(db, "https")
        http == get_proxy(db, "http")
        a == IF socks.host = <<>> /\ https.host # <<>> THEN https ELSE socks
        b == IF socks.host = <<>> /\ http.host # <<>> THEN http ELSE a
    IN  [res |-> "Ok", enable |-> get_enable(db), host |-> b.host, port |-> b.port]

\* Sysproxy::get_system_proxy (lines 11-33), every command having run.
get_system_proxy(db) ==
    LET socks == get_proxy(db, "socks")
        https == get_proxy(db, "https")
        http == get_proxy(db, "http")
        a == IF socks.host = <<>> /\ http.host # <<>> THEN http ELSE socks
        b == IF socks.host = <<>> /\ https.host # <<>> THEN https ELSE a
    IN  [res |-> "Ok", enable |-> get_enable(db), host |-> b.host, port |-> b.port]

\* ------------------------------------------------------ napi.rs, the data
\* A u32 is held as its two 16-bit halves.
U32(hi, lo) == [hi |-> hi, lo |-> lo]
U32Value(w) == w.hi * (U16Max + 1) + w.lo

\* The JavaScript ports examined: high halves and low halves.
JsHighs == {0, 1, 2, 32767}
JsLows == {0, 1, 8080, U16Max}

\* `port as u32` of a u16: the value, zero-extended.
AsU32(port) == U32(0, port % (U16Max + 1))

\* Mutant of AsU16: a port that does not fit becomes the largest port.
AsU16Saturating(w) == IF w.hi > 0 THEN U16Max ELSE w.lo

\* `port as u16` of a u32: the low 16 bits, the high ones dropped.
AsU16(w) == w.lo

NoRead == "-"
NoArg == [kind |-> "-", v |-> 0]

VARIABLES
    guard_stat,   \* GuardMonitor.guard_stat: the shared AtomicU8
    guard_type,   \* GuardMonitor.guard_type
    interval,     \* GuardMonitor.interval
    dropped,      \* the monitor has been dropped
    op,           \* per thread: the control call it is in ("none" when idle)
    pc,           \* per thread: its position in that call
    rd,           \* per thread: the state its call read at entry
    arg,          \* the argument of the setter call in progress
    tpc,          \* per task: its position in run_monitor_loop
    tcfg,         \* per task: its TaskConfig snapshot
    twoken,       \* tasks whose pending Notified future has been woken
    io,           \* per task: its last collaborator call in this loop iteration
    os,           \* the operating system's proxy settings (the collaborator)
    budget,       \* per thread: the control calls a bounded embedder may still begin
    elapsed,      \* tasks for which a full interval has passed since they began
    conv,         \* the GuardState conversion under examination
    gsettings_db, \* Linux: what the org.gnome.system.proxy keys hold
    last_set,     \* Linux: the Sysproxy of the last set_system_proxy and its outcome
    last_get,     \* Linux: what the last get_system_proxy returned
    napi_conv     \* N-API: the port conversion under examination

monitorVars == <<guard_stat, guard_type, interval, dropped>>
callerVars == <<op, pc, rd, arg>>
taskVars == <<tpc, tcfg, twoken, io>>
envVars == <<os, budget>>
linuxVars == <<gsettings_db, last_set, last_get>>
auxVars == <<elapsed, conv, linuxVars, napi_conv>>
vars == <<guard_stat, guard_type, interval, dropped, op, pc, rd, arg,
          tpc, tcfg, twoken, io, os, budget, elapsed, conv,
          gsettings_db, last_set, last_get, napi_conv>>

\* ------------------------------------------------------------- helpers
get_state == from_u8(guard_stat)

Live(t) == tpc[t] \notin {"none", "done"}
LiveTasks == {t \in Tasks : Live(t)}
nspawned == Cardinality({t \in Tasks : tpc[t] # "none"})
\* Tasks parked in select! with a Notified future created on the shared Notify.
Waiters == {t \in Tasks : tpc[t] = "wait"}

AllIdle == \A th \in Threads : op[th] = "none"
\* set_interval/set_guard_type take &mut self and drop takes the value: no
\* other call on the monitor overlaps them.
NoExclusiveCall == \A th \in Threads : op[th] \notin {"set_interval", "set_guard_type", "drop"}
\* Every start() in progress can still spawn its task.
SpawnRoom == nspawned + Cardinality({th \in Threads : op[th] = "start"}) < MaxTasks

\* ---------------------------------------------------------------- Init
\* Mutant of new: the state cell is initialised with Pending.
NewPending(g, i) ==
    /\ guard_type = g
    /\ interval = i
    /\ guard_stat = to_u8("Pending")
    /\ dropped = FALSE
    /\ tpc = [t \in Tasks |-> "none"]
    /\ tcfg = [t \in Tasks |-> NoConfig]
    /\ twoken = {}
    /\ io = [t \in Tasks |-> NoIo]
    /\ elapsed = {}

\* GuardMonitor::new: Stopped, no task; the fields are the arguments.
new(g, i) ==
    /\ guard_type = g
    /\ interval = i
    /\ guard_stat = to_u8("Stopped")
    /\ dropped = FALSE
    /\ tpc = [t \in Tasks |-> "none"]
    /\ tcfg = [t \in Tasks |-> NoConfig]
    /\ twoken = {}
    /\ io = [t \in Tasks |-> NoIo]
    /\ elapsed = {}

CallersIdle ==
    /\ op = [th \in Threads |-> "none"]
    /\ pc = [th \in Threads |-> "idle"]
    /\ rd = [th \in Threads |-> NoRead]
    /\ arg = NoArg
    /\ conv = NoConv
    /\ gsettings_db = DefaultDb
    /\ last_set = NoSet
    /\ last_get = NoGet
    /\ napi_conv = NoNapi

Init ==
    /\ \E g \in {GT_None, GT_Sysproxy(1)} : new(g, 50)
    /\ CallersIdle
    /\ os = [sys |-> 2, auto |-> 1]
    /\ budget = [th \in Threads |-> 0]

\* ------------------------------------------------------- GuardMonitor::start
\* Mutant of StartSkips: the Pending test is forgotten.
StartSkipsOnlyRunning(state) == is_running(state)

\* line 191: the states in which start() returns at once.
StartSkips(state) == is_running(state) \/ is_pendding(state)

\* lines 190-194: let state = self.get_state(); if ... { return; }
StartCall(th) ==
    /\ pc[th] = "idle"
    /\ ~dropped
    /\ NoExclusiveCall
    /\ StartSkips(get_state) \/ SpawnRoom
    /\ op' = [op EXCEPT ![th] = "start"]
    /\ rd' = [rd EXCEPT ![th] = get_state]
    /\ pc' = [pc EXCEPT ![th] = IF StartSkips(get_state) THEN "ret" ELSE "s_need"]
    /\ UNCHANGED <<auxVars, monitorVars, arg, taskVars, os>>

\* line 196: if self.get_state().is_need_restart() { self.stop(); sleep }
StartNeedRestart(th) ==
    /\ pc[th] = "s_need"
    /\ pc' = [pc EXCEPT ![th] = IF is_need_restart(get_state) THEN "p_entry" ELSE "s_cas"]
    /\ UNCHANGED <<auxVars, monitorVars, op, rd, arg, taskVars, envVars>>

\* line 199: std::thread::sleep(50 ms)
StartSleep(th) ==
    /\ pc[th] = "s_sleep"
    /\ pc' = [pc EXCEPT ![th] = "s_cas"]
    /\ UNCHANGED <<auxVars, monitorVars, op, rd, arg, taskVars, envVars>>

\* Mutant of StartCas: a plain store of Pending instead of the compare-exchange.
StartCasSwap(th) ==
    /\ pc[th] = "s_cas"
    /\ guard_stat' = to_u8("Pending")
    /\ pc' = [pc EXCEPT ![th] = "s_spawn"]
    /\ UNCHANGED <<auxVars, guard_type, interval, dropped, op, rd, arg, taskVars, envVars>>

\* lines 202-214: compare_exchange(Stopped, Pending)
StartCas(th) ==
    /\ pc[th] = "s_cas"
    /\ IF guard_stat = to_u8("Stopped")
       THEN /\ guard_stat' = to_u8("Pending")
            /\ pc' = [pc EXCEPT ![th] = "s_spawn"]
       ELSE /\ guard_stat' = guard_stat
            /\ pc' = [pc EXCEPT ![th] = "ret"]
    /\ UNCHANGED <<auxVars, guard_type, interval, dropped, op, rd, arg, taskVars, envVars>>

\* lines 216-224: snapshot the fields and tokio::spawn the task.
StartSpawn(th) ==
    /\ pc[th] = "s_spawn"
    /\ LET t == nspawned + 1 IN
        /\ tpc' = [tpc EXCEPT ![t] = "spawned"]
        /\ tcfg' = [tcfg EXCEPT ![t] = TaskConfig(guard_type, interval)]
    /\ pc' = [pc EXCEPT ![th] = "ret"]
    /\ UNCHANGED <<auxVars, monitorVars, op, rd, arg, twoken, io, envVars>>

\* -------------------------------------------------------- GuardMonitor::stop
\* Mutant of StopSkips: NeedRestart is taken for a state with nothing to stop.
StopSkipsAlsoNeedRestart(state) ==
    is_stopped(state) \/ is_pendding(state) \/ is_need_restart(state)

\* Mutant of StopSkips: the Stopped test is forgotten.
StopSkipsOnlyPending(state) == is_pendding(state)

\* Mutant of StopSkips: the Pending test is forgotten.
StopSkipsOnlyStopped(state) == is_stopped(state)

\* line 277: the states in which stop() returns at once.
StopSkips(state) == is_stopped(state) \/ is_pendding(state)

\* lines 276-280: let state = self.get_state(); if ... { return; }
\* (stop() called by the embedder)
StopCall(th) ==
    /\ pc[th] = "idle"
    /\ ~dropped
    /\ NoExclusiveCall
    /\ op' = [op EXCEPT ![th] = "stop"]
    /\ rd' = [rd EXCEPT ![th] = get_state]
    /\ pc' = [pc EXCEPT ![th] = IF StopSkips(get_state) THEN "ret" ELSE "p_store"]
    /\ UNCHANGED <<auxVars, monitorVars, arg, taskVars, os>>

\* lines 276-280, for the stop() that start() calls at line 198; it returns
\* to the sleep of line 199.
StopInStart(th) ==
    /\ pc[th] = "p_entry"
    /\ pc' = [pc EXCEPT ![th] = IF StopSkips(get_state) THEN "s_sleep" ELSE "p_store"]
    /\ UNCHANGED <<auxVars, monitorVars, op, rd, arg, taskVars, envVars>>

\* line 282: self.set_state(GuardState::Stopped)
StopStore(th) ==
    /\ pc[th] = "p_store"
    /\ guard_stat' = to_u8("Stopped")
    /\ pc' = [pc EXCEPT ![th] = "p_notify"]
    /\ UNCHANGED <<auxVars, guard_type, interval, dropped, op, rd, arg, taskVars, envVars>>

\* Notify::notify_waiters: wakes every Notified future that exists now, and
\* stores no permit for one created later.
notify_waiters == twoken' = twoken \cup Waiters

\* line 283, and the return: to line 199 of start(), or to the embedder.
StopNotify(th) ==
    /\ pc[th] = "p_notify"
    /\ notify_waiters
    /\ pc' = [pc EXCEPT ![th] = IF op[th] = "start" THEN "s_sleep" ELSE "ret"]
    /\ UNCHANGED <<auxVars, monitorVars, op, rd, arg, tpc, tcfg, io, envVars>>

\* ------------------------------------------------------------------- Drop
\* impl Drop: self.stop(), here its lines 276-280.  The monitor is owned: no
\* call is in progress and none can follow.
DropCall(th) ==
    /\ pc[th] = "idle"
    /\ ~dropped
    /\ AllIdle
    /\ dropped' = TRUE
    /\ op' = [op EXCEPT ![th] = "drop"]
    /\ rd' = [rd EXCEPT ![th] = get_state]
    /\ pc' = [pc EXCEPT ![th] = IF StopSkips(get_state) THEN "ret" ELSE "p_store"]
    /\ UNCHANGED <<auxVars, guard_stat, guard_type, interval, arg, taskVars, os>>

\* ---------------------------------------------- set_interval / set_guard_type
\* Mutant of should_restart: only Running counts as a state with a task.
ShouldRestartOnlyRunning(old, value) == is_running(get_state) /\ old # value

\* Mutant of should_restart: the comparison with the stored value is forgotten.
ShouldRestartIgnoresEquality(old, value) == ~is_stopped(get_state)

\* lines 135, 146: should_restart
should_restart(old, value) == ~is_stopped(get_state) /\ old # value

\* The field a setter is about, as the value its argument is compared with.
StoredField(which) ==
    IF which = "set_interval" THEN [kind |-> "Duration", v |-> interval] ELSE guard_type

\* lines 133-136 / 144-147
SetCall(th, which, value) ==
    /\ pc[th] = "idle"
    /\ ~dropped
    /\ AllIdle
    /\ op' = [op EXCEPT ![th] = which]
    /\ arg' = value
    /\ LET old == StoredField(which) IN
        pc' = [pc EXCEPT ![th] = IF should_restart(old, value) THEN "g_store" ELSE "g_write"]
    /\ UNCHANGED <<auxVars, monitorVars, rd, taskVars, os>>

\* lines 138, 149: self.set_state(GuardState::NeedRestart)
SetStore(th) ==
    /\ pc[th] = "g_store"
    /\ guard_stat' = to_u8("NeedRestart")
    /\ pc' = [pc EXCEPT ![th] = "g_write"]
    /\ UNCHANGED <<auxVars, guard_type, interval, dropped, op, rd, arg, taskVars, envVars>>

\* Mutant of SetWrite: the field is overwritten only while a task may be live.
SetWriteUnlessStopped(th) ==
    /\ pc[th] = "g_write"
    /\ IF is_stopped(get_state)
       THEN interval' = interval /\ guard_type' = guard_type
       ELSE IF op[th] = "set_interval"
       THEN interval' = arg.v /\ guard_type' = guard_type
       ELSE guard_type' = arg /\ interval' = interval
    /\ arg' = NoArg
    /\ pc' = [pc EXCEPT ![th] = "ret"]
    /\ UNCHANGED <<auxVars, guard_stat, dropped, op, rd, taskVars, envVars>>

\* lines 140, 151: the field is overwritten
SetWrite(th) ==
    /\ pc[th] = "g_write"
    /\ IF op[th] = "set_interval"
       THEN interval' = arg.v /\ guard_type' = guard_type
       ELSE guard_type' = arg /\ interval' = interval
    /\ arg' = NoArg
    /\ pc' = [pc EXCEPT ![th] = "ret"]
    /\ UNCHANGED <<auxVars, guard_stat, dropped, op, rd, taskVars, envVars>>

\* The call returns to the embedder.
Return(th) ==
    /\ pc[th] = "ret"
    /\ pc' = [pc EXCEPT ![th] = "idle"]
    /\ op' = [op EXCEPT ![th] = "none"]
    /\ rd' = [rd EXCEPT ![th] = NoRead]
    /\ UNCHANGED <<auxVars, monitorVars, arg, taskVars, envVars>>

\* ------------------------------------------------- run_monitor_loop (a task)
\* Mutant of TaskInit: the task starts looping without storing Running.
TaskInitNoStore(t) ==
    /\ tpc[t] = "spawned"
    /\ tpc' = [tpc EXCEPT ![t] = "top"]
    /\ UNCHANGED <<auxVars, monitorVars, callerVars, tcfg, twoken, io, envVars>>

\* line 234: guard_stat.store(Running)
TaskInit(t) ==
    /\ tpc[t] = "spawned"
    /\ guard_stat' = to_u8("Running")
    /\ tpc' = [tpc EXCEPT ![t] = "top"]
    /\ UNCHANGED <<auxVars, guard_type, interval, dropped, callerVars, tcfg, twoken, io, envVars>>

\* Mutant of LoopBreaks: the Stopped test is forgotten.
LoopBreaksOnlyNeedRestart(state) == is_need_restart(state)

\* Mutant of LoopBreaks: the NeedRestart test is forgotten.
LoopBreaksOnlyStopped(state) == is_stopped(state)

\* lines 238-244: the states in which the loop is left.
LoopBreaks(state) == is_stopped(state) \/ is_need_restart(state)

\* lines 237-244
TaskCheck(t) ==
    /\ tpc[t] = "top"
    /\ tpc' = [tpc EXCEPT ![t] = IF LoopBreaks(get_state) THEN "exit" ELSE "select"]
    /\ io' = [io EXCEPT ![t] = NoIo]
    /\ UNCHANGED <<auxVars, monitorVars, callerVars, tcfg, twoken, envVars>>

\* line 246: select! creates interval.tick() and notify.notified() and parks.
TaskSelect(t) ==
    /\ tpc[t] = "select"
    /\ tpc' = [tpc EXCEPT ![t] = "wait"]
    /\ UNCHANGED <<auxVars, monitorVars, callerVars, tcfg, twoken, io, envVars>>

\* lines 262-265: the notified branch wins.
TaskNotified(t) ==
    /\ tpc[t] = "wait"
    /\ t \in twoken
    /\ tpc' = [tpc EXCEPT ![t] = "exit"]
    /\ twoken' = twoken \ {t}
    /\ UNCHANGED <<auxVars, monitorVars, callerVars, tcfg, io, envVars>>

\* What the collaborator holds for a snapshot's kind.
Actual(g) == IF g.kind = "Sysproxy" THEN os.sys ELSE os.auto

\* Mutant of TaskTick: the GuardType::None arm falls into the Autoproxy check.
TaskTickChecksNone(t) ==
    /\ tpc[t] = "wait"
    /\ twoken' = twoken \ {t}
    /\ LET g == tcfg[t].guard_type IN
        \E ok \in BOOLEAN :
            /\ tpc' = [tpc EXCEPT ![t] = IF ok /\ Actual(g) # g.v THEN "set" ELSE "top"]
            /\ io' = [io EXCEPT ![t] = IoGet(ok, Actual(g))]
    /\ UNCHANGED <<auxVars, monitorVars, callerVars, tcfg, envVars>>

\* Mutant of TaskTick: the comparison with the snapshot is forgotten.
TaskTickNoCompare(t) ==
    /\ tpc[t] = "wait"
    /\ twoken' = twoken \ {t}
    /\ LET g == tcfg[t].guard_type IN
        IF g.kind = "None"
        THEN tpc' = [tpc EXCEPT ![t] = "top"] /\ io' = [io EXCEPT ![t] = IoSkip]
        ELSE \E ok \in BOOLEAN :
                /\ tpc' = [tpc EXCEPT ![t] = IF ok THEN "set" ELSE "top"]
                /\ io' = [io EXCEPT ![t] = IoGet(ok, Actual(g))]
    /\ UNCHANGED <<auxVars, monitorVars, callerVars, tcfg, envVars>>

\* lines 247-260 with 156-157 / 172-173: the tick branch wins and the Notified
\* future is dropped; the match on the snapshot, the collaborator's get (which
\* may fail) and the comparison.
TaskTick(t) ==
    /\ tpc[t] = "wait"
    /\ twoken' = twoken \ {t}
    /\ LET g == tcfg[t].guard_type IN
        IF g.kind = "None"
        THEN tpc' = [tpc EXCEPT ![t] = "top"] /\ io' = [io EXCEPT ![t] = IoSkip]
        ELSE \E ok \in BOOLEAN :
                /\ tpc' = [tpc EXCEPT ![t] = IF ok /\ Actual(g) # g.v THEN "set" ELSE "top"]
                /\ io' = [io EXCEPT ![t] = IoGet(ok, Actual(g))]
    /\ UNCHANGED <<auxVars, monitorVars, callerVars, tcfg, envVars>>

\* Mutant of TaskSet: a failed set ends the task.
TaskSetFatal(t) ==
    /\ tpc[t] = "set"
    /\ LET g == tcfg[t].guard_type IN
        \E ok \in BOOLEAN :
            /\ os' = IF ~ok THEN os
                     ELSE IF g.kind = "Sysproxy" THEN [os EXCEPT !.sys = g.v]
                     ELSE [os EXCEPT !.auto = g.v]
            /\ io' = [io EXCEPT ![t] = IoSet(ok, g.v)]
            /\ tpc' = [tpc EXCEPT ![t] = IF ok THEN "top" ELSE "exit"]
    /\ UNCHANGED <<auxVars, monitorVars, callerVars, tcfg, twoken, budget>>

\* Mutant of TaskSet: the monitor's current field is written, not the snapshot.
TaskSetLiveField(t) ==
    /\ tpc[t] = "set"
    /\ LET g == guard_type IN
        \E ok \in BOOLEAN :
            /\ os' = IF ~ok THEN os
                     ELSE IF g.kind = "Sysproxy" THEN [os EXCEPT !.sys = g.v]
                     ELSE [os EXCEPT !.auto = g.v]
            /\ io' = [io EXCEPT ![t] = IoSet(ok, g.v)]
    /\ tpc' = [tpc EXCEPT ![t] = "top"]
    /\ UNCHANGED <<auxVars, monitorVars, callerVars, tcfg, twoken, budget>>

\* lines 164-166 / 180-182: the collaborator's set (which may fail).
TaskSet(t) ==
    /\ tpc[t] = "set"
    /\ LET g == tcfg[t].guard_type IN
        \E ok \in BOOLEAN :
            /\ os' = IF ~ok THEN os
                     ELSE IF g.kind = "Sysproxy" THEN [os EXCEPT !.sys = g.v]
                     ELSE [os EXCEPT !.auto = g.v]
            /\ io' = [io EXCEPT ![t] = IoSet(ok, g.v)]
    /\ tpc' = [tpc EXCEPT ![t] = "top"]
    /\ UNCHANGED <<auxVars, monitorVars, callerVars, tcfg, twoken, budget>>

\* Mutant of TaskExit: the task returns without the final store.
TaskExitNoStore(t) ==
    /\ tpc[t] = "exit"
    /\ guard_stat' = guard_stat
    /\ tpc' = [tpc EXCEPT ![t] = "done"]
    /\ tcfg' = [tcfg EXCEPT ![t] = NoConfig]
    /\ UNCHANGED <<auxVars, guard_type, interval, dropped, callerVars, twoken, io, envVars>>

\* line 269: guard_stat.store(Stopped), and the task returns.
TaskExit(t) ==
    /\ tpc[t] = "exit"
    /\ guard_stat' = to_u8("Stopped")
    /\ tpc' = [tpc EXCEPT ![t] = "done"]
    /\ tcfg' = [tcfg EXCEPT ![t] = NoConfig]
    /\ UNCHANGED <<auxVars, guard_type, interval, dropped, callerVars, twoken, io, envVars>>

\* ------------------------------------------------------- specifications
\* A step of a control call in progress on thread th.
CallStep(th) ==
    \/ StartNeedRestart(th)
    \/ StartSleep(th)
    \/ StartCas(th)
    \/ StartSpawn(th)
    \/ StopInStart(th)
    \/ StopStore(th)
    \/ StopNotify(th)
    \/ SetStore(th)
    \/ SetWrite(th)
    \/ Return(th)

\* A step of task t.
TaskStep(t) ==
    \/ TaskInit(t)
    \/ TaskCheck(t)
    \/ TaskSelect(t)
    \/ TaskTick(t)
    \/ TaskNotified(t)
    \/ TaskSet(t)
    \/ TaskExit(t)

\* The embedder begins any control call, on any thread, at any time.
FreeCall(th) ==
    /\ UNCHANGED budget
    /\ \/ StartCall(th)
       \/ StopCall(th)
       \/ DropCall(th)
       \/ \E i \in {50} : SetCall(th, "set_interval", [kind |-> "Duration", v |-> i])
       \/ \E g \in {GT_None, GT_Sysproxy(1)} : SetCall(th, "set_guard_type", g)

Next ==
    \/ \E th \in Threads : FreeCall(th)
    \/ \E th \in Threads : CallStep(th)
    \/ \E t \in Tasks : TaskStep(t)

\* Any embedder, any number of threads' worth of concurrent control calls.
Spec == Init /\ [][Next]_vars

\* A control call of an embedder that issues a bounded number of calls.
Spend(th) ==
    /\ budget[th] > 0
    /\ budget' = [budget EXCEPT ![th] = @ - 1]

\* Threads keep executing the call they are in, and the runtime keeps polling
\* every spawned task (an interval tick always comes).
Fairness ==
    /\ \A th \in Threads : WF_vars(CallStep(th))
    /\ \A t \in Tasks : WF_vars(TaskStep(t))

\* A bounded embedder: thread 1 owns the monitor and issues up to MaxCalls
\* control calls of any kind, one after the other; thread 2 shares it and
\* issues one start() or stop() at any time.
InitSeq ==
    /\ new(GT_Sysproxy(1), 50)
    /\ CallersIdle
    /\ os = [sys |-> 2, auto |-> 1]
    /\ budget = [th \in Threads |-> IF th = 1 THEN MaxCalls ELSE IF th = 2 THEN 1 ELSE 0]

SeqCall(th) ==
    /\ Spend(th)
    /\ \/ StartCall(th)
       \/ StopCall(th)
       \/ DropCall(th)
       \/ \E g \in {GT_None, GT_Sysproxy(1)} : SetCall(th, "set_guard_type", g)

SharedCall(th) ==
    /\ Spend(th)
    /\ \/ StartCall(th)
       \/ StopCall(th)

NextSeq ==
    \/ SeqCall(1)
    \/ SharedCall(2)
    \/ \E th \in {1, 2} : CallStep(th)
    \/ \E t \in Tasks : TaskStep(t)

FairSpec == InitSeq /\ [][NextSeq]_vars /\ Fairness

\* Scenario C of the tests (test_concurrent_start_attempts): every thread
\* calls start() once on a freshly constructed monitor; nothing else is called.
InitRace ==
    /\ \E g \in {GT_None, GT_Sysproxy(1)} : new(g, 50)
    /\ CallersIdle
    /\ os = [sys |-> 2, auto |-> 1]
    /\ budget = [th \in Threads |-> 1]

RaceStart(th) == Spend(th) /\ StartCall(th)

NextRace ==
    \/ \E th \in Threads :
        \/ RaceStart(th)
        \/ StartNeedRestart(th)
        \/ StartCas(th)
        \/ StartSpawn(th)
        \/ Return(th)
    \/ \E t \in Tasks :
        \/ TaskInit(t)
        \/ TaskCheck(t)
        \/ TaskSelect(t)
        \/ TaskTick(t)
        \/ TaskSet(t)

SpecRace ==
    /\ InitRace
    /\ [][NextRace]_vars
    /\ Fairness
    /\ \A th \in Threads : WF_vars(RaceStart(th))

\* test_stop_while_pending, with the two calls on two threads: thread 1 calls
\* start() once and thread 2 calls stop() once, at any time; nothing else is
\* called.
InitPending ==
    /\ \E g \in {GT_None, GT_Sysproxy(1)} : new(g, 50)
    /\ CallersIdle
    /\ os = [sys |-> 2, auto |-> 1]
    /\ budget = [th \in Threads |-> IF th \in {1, 2} THEN 1 ELSE 0]

PendingStart == Spend(1) /\ StartCall(1)
PendingStop == Spend(2) /\ StopCall(2)

NextPending ==
    \/ PendingStart
    \/ PendingStop
    \/ StartNeedRestart(1)
    \/ StartCas(1)
    \/ StartSpawn(1)
    \/ StopStore(2)
    \/ StopNotify(2)
    \/ \E th \in {1, 2} : Return(th)
    \/ \E t \in Tasks : TaskStep(t)

SpecPending ==
    /\ InitPending
    /\ [][NextPending]_vars
    /\ Fairness
    /\ WF_vars(PendingStart)
    /\ WF_vars(PendingStop)

\* Another program changes the operating system's proxy settings.
Drift ==
    /\ \E k \in {"sys", "auto"}, x \in ProxyValues :
        /\ os[k] # x
        /\ os' = [os EXCEPT ![k] = x]
    /\ UNCHANGED <<auxVars, monitorVars, callerVars, taskVars, budget>>

\* An owner that holds the monitor alone (so that it may call the &mut self
\* setters) and issues MaxOwnerCalls control calls of any kind, with any
\* argument, one after the other, while the settings drift.
InitOwner ==
    /\ \E g \in GuardTypes : new(g, 50)
    /\ CallersIdle
    /\ os = [sys |-> 2, auto |-> 1]
    /\ budget = [th \in Threads |-> IF th = 1 THEN MaxOwnerCalls ELSE 0]

OwnerCall(th) ==
    /\ Spend(th)
    /\ \/ StartCall(th)
       \/ StopCall(th)
       \/ \E i \in Intervals : SetCall(th, "set_interval", [kind |-> "Duration", v |-> i])
       \/ \E g \in GuardTypes : SetCall(th, "set_guard_type", g)

NextOwner ==
    \/ OwnerCall(1)
    \/ CallStep(1)
    \/ \E t \in Tasks : TaskStep(t)
    \/ Drift

SpecOwner == InitOwner /\ [][NextOwner]_vars /\ Fairness

\* test_restart_after_stop: one owner calls start() when the monitor is
\* Stopped with no task left, waits until it observes Running, calls stop(),
\* waits until the task has gone, and starts again.
InitCycle ==
    /\ \E g \in {GT_None, GT_Sysproxy(1)} : new(g, 50)
    /\ CallersIdle
    /\ os = [sys |-> 2, auto |-> 1]
    /\ budget = [th \in Threads |-> 0]

CycleStart ==
    /\ is_stopped(get_state) /\ LiveTasks = {}
    /\ StartCall(1)
    /\ UNCHANGED budget

CycleStop ==
    /\ is_running(get_state)
    /\ StopCall(1)
    /\ UNCHANGED budget

NextCycle ==
    \/ CycleStart
    \/ CycleStop
    \/ StartNeedRestart(1)
    \/ StartCas(1)
    \/ StartSpawn(1)
    \/ StopStore(1)
    \/ StopNotify(1)
    \/ Return(1)
    \/ \E t \in Tasks : TaskStep(t)
    \/ Drift

SpecCycle ==
    /\ InitCycle
    /\ [][NextCycle]_vars
    /\ Fairness
    /\ WF_vars(CycleStart)
    /\ WF_vars(CycleStop)

\* line 231: tokio::time::interval(config.interval) is created when the task
\* starts; its first tick completes at once and the later ones a period apart.
\* Elapse(t) is the moment one full period has passed since task t created its
\* interval.
Elapse(t) ==
    /\ tpc[t] \notin {"none", "spawned", "done"}
    /\ t \notin elapsed
    /\ elapsed' = elapsed \cup {t}
    /\ UNCHANGED <<monitorVars, callerVars, taskVars, envVars, conv, linuxVars, napi_conv>>

NextTimed ==
    \/ NextCycle
    \/ \E t \in Tasks : Elapse(t)

SpecTimed ==
    /\ InitCycle
    /\ [][NextTimed]_vars
    /\ Fairness
    /\ WF_vars(CycleStart)

\* test_initial_state and the creation tests: a monitor constructed with any
\* configuration and interval, then used as in test_restart_after_stop.
InitNew ==
    /\ \E g \in GuardTypes, i \in Intervals : new(g, i)
    /\ CallersIdle
    /\ os = [sys |-> 2, auto |-> 1]
    /\ budget = [th \in Threads |-> 0]

SpecNew == InitNew /\ [][NextCycle]_vars /\ Fairness

\* test_guard_state_conversions: from_u8 applied to any u8, then to_u8 applied
\* to the state it returned.
FromU8Call ==
    /\ \E value \in 0..U8Max :
        conv' = [value |-> value, state |-> from_u8(value), code |-> NoCode]
    /\ UNCHANGED <<monitorVars, callerVars, taskVars, envVars, elapsed, linuxVars, napi_conv>>

ToU8Call ==
    /\ conv.value # NoCode
    /\ conv.code = NoCode
    /\ conv' = [conv EXCEPT !.code = to_u8(conv.state)]
    /\ UNCHANGED <<monitorVars, callerVars, taskVars, envVars, elapsed, linuxVars, napi_conv>>

NextConv == FromU8Call \/ ToU8Call

SpecConv == InitNew /\ [][NextConv]_vars

\* ------------------------------------------------ linux.rs, the gsettings path
\* Sysproxy::set_system_proxy on some value: its commands run in order; a
\* command that cannot be spawned ends the call with an error (the `?`s), the
\* earlier commands having taken effect.
LinuxSet ==
    /\ \E p \in Sysproxies :
        LET cmds == set_system_proxy(p) IN
        \E k \in 0..Len(cmds) :
            /\ gsettings_db' = RunCmds(gsettings_db, cmds, k)
            /\ last_set' = IF k = Len(cmds)
                            THEN [ok |-> TRUE, enable |-> p.enable, host |-> p.host, port |-> p.port]
                            ELSE NoSet
    /\ last_get' = NoGet
    /\ UNCHANGED <<monitorVars, callerVars, taskVars, envVars, elapsed, conv, napi_conv>>

\* Sysproxy::get_system_proxy: Ok of what the keys hold, or Err when a command
\* cannot be spawned.
LinuxGet ==
    /\ \E ok \in BOOLEAN :
        last_get' = IF ok THEN get_system_proxy(gsettings_db) ELSE GetErr
    /\ UNCHANGED <<monitorVars, callerVars, taskVars, envVars, elapsed, conv,
                   gsettings_db, last_set, napi_conv>>

\* Another program (the desktop's settings panel) changes one key.
ExternalWrite ==
    /\ \/ \E m \in Modes : gsettings_db' = [gsettings_db EXCEPT !.mode = m]
       \/ \E service \in Services, h \in Hosts :
            gsettings_db' = [gsettings_db EXCEPT ![service].host = h]
       \/ \E service \in Services, n \in Ports :
            gsettings_db' = [gsettings_db EXCEPT ![service].port = n]
    /\ gsettings_db' # gsettings_db
    /\ last_set' = NoSet
    /\ last_get' = NoGet
    /\ UNCHANGED <<monitorVars, callerVars, taskVars, envVars, elapsed, conv, napi_conv>>

InitLinux ==
    /\ new(GT_None, 50)
    /\ CallersIdle
    /\ os = [sys |-> 2, auto |-> 1]
    /\ budget = [th \in Threads |-> 0]

NextLinux == LinuxSet \/ LinuxGet \/ ExternalWrite

SpecLinux == InitLinux /\ [][NextLinux]_vars

\* --------------------------------------------------------------- napi.rs
\* From<Sysproxy> for JsSysproxy (lines 20-29), on a Sysproxy of any port.
FromSysproxy ==
    /\ napi_conv = NoNapi
    /\ \E port \in 0..U16Max :
        LET w == AsU32(port) IN
        napi_conv' = [from |-> "Sysproxy", port |-> port, hi |-> w.hi, lo |-> w.lo,
                      back |-> NoCode]
    /\ UNCHANGED <<monitorVars, callerVars, taskVars, envVars, elapsed, conv, linuxVars>>

\* From<JsSysproxy> for Sysproxy (lines 31-40), on the JsSysproxy just made.
IntoSysproxy ==
    /\ napi_conv.from = "Sysproxy"
    /\ napi_conv.back = NoCode
    /\ napi_conv' = [napi_conv EXCEPT !.back = AsU16(U32(napi_conv.hi, napi_conv.lo))]
    /\ UNCHANGED <<monitorVars, callerVars, taskVars, envVars, elapsed, conv, linuxVars>>

\* From<JsSysproxy> for Sysproxy (lines 31-40) in set_system_proxy (68-72),
\* and trigger_manual_proxy (lines 89-99), on a port given by JavaScript.
FromJs ==
    /\ napi_conv = NoNapi
    /\ \E from \in {"JsSysproxy", "trigger_manual_proxy"}, hi \in JsHighs, lo \in JsLows :
        napi_conv' = [from |-> from, port |-> U32Value(U32(hi, lo)), hi |-> hi, lo |-> lo,
                      back |-> AsU16(U32(hi, lo))]
    /\ UNCHANGED <<monitorVars, callerVars, taskVars, envVars, elapsed, conv, linuxVars>>

NextNapi == FromSysproxy \/ IntoSysproxy \/ FromJs

SpecNapi == InitLinux /\ [][NextNapi]_vars

\* ------------------------------------------------------------------ claims
\* Thread th's call is the last control call of the bounded embedder: every
\* budget is spent and no other thread is in a call.
NoCallFollows(th) ==
    \A u \in Threads : budget[u] = 0 /\ (u # th => op[u] = "none")

AllReturned == \A th \in Threads : budget[th] = 0 /\ op[th] = "none"

\* C1: at most one background task of the monitor is live (spawned and not
\* yet returned from run_monitor_loop) at any instant.
C1_AtMostOneLiveTask == Cardinality(LiveTasks) <= 1

\* C2: when every thread calls start() once on a fresh monitor and nothing
\* else is called, never more than one caller has won the compare-exchange
\* or spawned a task, and in the end every call has returned, exactly one
\* task has been spawned and the state is Running for good.
C2_OneStartWins ==
    /\ [](Cardinality({th \in Threads : pc[th] = "s_spawn"}) + nspawned <= 1)
    /\ <>[](AllReturned /\ nspawned = 1 /\ is_running(get_state))

C2_Witness ==
    /\ AllReturned
    /\ nspawned = 1
    /\ tpc[1] = "wait"
    /\ is_running(get_state)

\* C3: a start() call whose entry read of the state is Running or Pending
\* goes straight to its return, and neither its entry step nor its return
\* writes the state or spawns a task.
C3_StartIsIdempotent ==
    [][\A th \in Threads :
        /\ (op[th] = "none" /\ op'[th] = "start" /\ rd'[th] \in {"Running", "Pending"})
            => (pc'[th] = "ret" /\ guard_stat' = guard_stat /\ tpc' = tpc)
        /\ (op[th] = "start" /\ rd[th] \in {"Running", "Pending"} /\ pc'[th] # pc[th])
            => (pc'[th] = "idle" /\ guard_stat' = guard_stat /\ tpc' = tpc)]_vars

C3_Witness ==
    \E a, b \in Threads :
        /\ op[a] = "start" /\ pc[a] = "ret" /\ rd[a] = "Running"
        /\ op[b] = "start" /\ pc[b] = "ret" /\ rd[b] = "Pending"

\* C4: once a start() call has read the state as Stopped, the state
\* eventually becomes Running (threads and tasks being scheduled fairly).
C4_StartReachesRunning ==
    \A th \in Threads :
        (pc[th] = "s_need" /\ rd[th] = "Stopped") ~> is_running(get_state)

C4_Witness ==
    \E th \in Threads :
        /\ op[th] = "start" /\ pc[th] = "ret" /\ rd[th] = "Stopped"
        /\ is_running(get_state)
        /\ \E t \in Tasks : tpc[t] = "wait"

\* C5: a stop() whose entry read of the state is Running or NeedRestart goes
\* on to store Stopped, then wakes every task parked on the Notify, and only
\* then returns; none of these steps waits for a task (each is enabled
\* whatever the tasks are doing).
C5_StopStoresThenNotifies ==
    /\ [](\A th \in Threads : pc[th] \in {"p_store", "p_notify"} => ENABLED CallStep(th))
    /\ [][\A th \in Threads :
            /\ (op[th] = "none" /\ op'[th] \in {"stop", "drop"}
                    /\ rd'[th] \in {"Running", "NeedRestart"})
                => pc'[th] = "p_store"
            /\ (pc[th] = "p_entry" /\ pc'[th] # pc[th]
                    /\ get_state \in {"Running", "NeedRestart"})
                => pc'[th] = "p_store"
            /\ (pc[th] = "p_store" /\ pc'[th] # pc[th])
                => (guard_stat' = to_u8("Stopped") /\ pc'[th] = "p_notify")
            /\ (pc[th] = "p_notify" /\ pc'[th] # pc[th])
                => (Waiters \subseteq twoken' /\ tpc' = tpc
                    /\ guard_stat' = guard_stat /\ pc'[th] \in {"ret", "s_sleep"})
            /\ (op[th] \in {"stop", "drop"} /\ rd[th] \in {"Running", "NeedRestart"}
                    /\ pc[th] # "ret" /\ pc'[th] = "ret")
                => pc[th] = "p_notify"]_vars

C5_Witness ==
    \E th \in Threads :
        /\ op[th] = "stop" /\ pc[th] = "ret" /\ rd[th] = "Running"
        /\ is_stopped(get_state)
        /\ twoken # {}

\* C6: if stop() has just read the state as Running, no other control call is
\* in flight and none follows, then eventually every task has terminated and
\* the state is Stopped from then on.
C6_StopConverges ==
    \A th \in Threads :
        (op[th] = "stop" /\ pc[th] = "p_store" /\ rd[th] = "Running"
                /\ NoCallFollows(th))
            ~> [](is_stopped(get_state) /\ LiveTasks = {})

C8_StopWhilePendingStops ==
    (op[1] = "stop" /\ rd[1] = "Pending" /\ NoCallFollows(1))
        ~> [](is_stopped(get_state))

\* C9: whenever the lifecycle state is Stopped, no background task of the
\* monitor exists.
C9_StoppedHasNoTask == is_stopped(get_state) => LiveTasks = {}

\* C10: after the monitor has been dropped, every background task it spawned
\* eventually terminates.
C10_DropEndsEveryTask == dropped ~> (LiveTasks = {})

\* A setter call (set_interval or set_guard_type) begins on thread th.
SetterBegins(th) ==
    op[th] = "none" /\ op'[th] \in {"set_interval", "set_guard_type"}

\* C11: a setter whose argument differs from the stored value, called while
\* the state is Pending, Running or NeedRestart, goes on to store NeedRestart
\* and then to overwrite the stored field with its argument.
C11_SetterMarksNeedRestart ==
    [][\A th \in Threads :
        /\ (SetterBegins(th) /\ get_state \in {"Pending", "Running", "NeedRestart"}
                /\ arg' # StoredField(op'[th]))
            => pc'[th] = "g_store"
        /\ (pc[th] = "g_store" /\ pc'[th] # pc[th])
            => (guard_stat' = to_u8("NeedRestart") /\ pc'[th] = "g_write" /\ arg' = arg)
        /\ (pc[th] = "g_write" /\ pc'[th] # pc[th])
            => (StoredField(op[th])' = arg /\ pc'[th] = "ret")]_vars

C11_Witness ==
    /\ op[1] = "set_interval" /\ pc[1] = "ret"
    /\ interval = 100
    /\ is_need_restart(get_state)

\* C12: a setter that reads the state as Stopped, or whose argument equals the
\* stored value, never writes the lifecycle state: it goes straight to the
\* overwrite of the field, and neither step changes guard_stat.
C12_SetterLeavesState ==
    [][\A th \in Threads :
        /\ (SetterBegins(th) /\ (is_stopped(get_state) \/ arg' = StoredField(op'[th])))
            => (pc'[th] = "g_write" /\ guard_stat' = guard_stat)
        /\ (pc[th] = "g_write" /\ pc'[th] # pc[th])
            => (guard_stat' = guard_stat /\ pc'[th] = "ret")]_vars

C12_Witness ==
    /\ op[1] = "set_guard_type" /\ pc[1] = "g_write"
    /\ arg = guard_type
    /\ is_running(get_state)

\* Task t makes a collaborator call (a get or a set) in this step.
CollabCall(t) == io'[t] # io[t] /\ io'[t].call \in {"get", "set"}

\* C13: if a setter is about to store NeedRestart while the state is Running
\* and a task is live, and no other control call is in flight or follows,
\* then eventually every task has exited and the state is Stopped.
C13_NeedRestartStopsTask ==
    \A th \in Threads :
        (op[th] \in {"set_interval", "set_guard_type"} /\ pc[th] = "g_store"
                /\ is_running(get_state) /\ LiveTasks # {} /\ NoCallFollows(th))
            ~> (is_stopped(get_state) /\ LiveTasks = {})

\* C14: while the lifecycle state is NeedRestart, no task makes a collaborator
\* call (a get or a set).
C14_NoReconcileAfterNeedRestart ==
    [][is_need_restart(get_state) => \A t \in Tasks : ~CollabCall(t)]_vars

\* C15: a task's snapshot is the monitor's configuration and interval at the
\* moment it is spawned and never changes while the task lives; the task
\* compares what the collaborator returns with the snapshot and writes the
\* snapshot, whatever the monitor's fields have become.
C15_TaskUsesItsSnapshot ==
    [][\A t \in Tasks :
        /\ (tpc[t] = "none" /\ tpc'[t] # "none")
            => tcfg'[t] = TaskConfig(guard_type, interval)
        /\ (Live(t) /\ Live(t)') => tcfg'[t] = tcfg[t]
        /\ (CollabCall(t) /\ io'[t].call = "get")
            => (tpc'[t] = "set" <=> (io'[t].ok /\ io'[t].v # tcfg[t].guard_type.v))
        /\ (CollabCall(t) /\ io'[t].call = "set")
            => /\ io'[t].v = tcfg[t].guard_type.v
               /\ io'[t].ok => Actual(tcfg[t].guard_type)' = tcfg[t].guard_type.v]_vars

C15_Witness ==
    \E t \in Tasks :
        /\ Live(t)
        /\ tcfg[t].guard_type.kind = "Sysproxy"
        /\ guard_type.kind = "Sysproxy"
        /\ tcfg[t].guard_type # guard_type
        /\ io[t] = IoSet(TRUE, tcfg[t].guard_type.v)

\* C16: a start() that read the state as NeedRestart at its entry runs the
\* stop protocol when its second read is NeedRestart too (Stopped stored, then
\* the waiters notified, then the grace sleep), then wins the Stopped->Pending
\* compare-exchange and spawns a task whose snapshot is the monitor's current
\* configuration and interval.
C16_StartRestarts ==
    [][\A th \in Threads : (op[th] = "start" /\ rd[th] = "NeedRestart" /\ pc'[th] # pc[th]) =>
        /\ (pc[th] = "s_need" /\ is_need_restart(get_state)) => pc'[th] = "p_entry"
        /\ (pc[th] = "p_entry" /\ is_need_restart(get_state)) => pc'[th] = "p_store"
        /\ pc[th] = "p_store" => (guard_stat' = to_u8("Stopped") /\ pc'[th] = "p_notify")
        /\ pc[th] = "p_notify" => (Waiters \subseteq twoken' /\ pc'[th] = "s_sleep")
        /\ pc[th] = "s_sleep" => pc'[th] = "s_cas"
        /\ pc[th] = "s_cas" => (guard_stat' = to_u8("Pending") /\ pc'[th] = "s_spawn")
        /\ pc[th] = "s_spawn" =>
            \E t \in Tasks : /\ tpc[t] = "none" /\ tpc'[t] = "spawned"
                              /\ tcfg'[t] = TaskConfig(guard_type, interval)]_vars

\* C17: in every start/stop cycle begun with the monitor Stopped and no task
\* left, start() wins the compare-exchange and spawns a task, the state
\* becomes Running with that one task live, the stop() that follows brings the
\* monitor back to Stopped with no task left, and the cycles go on until
\* every task the bound allows has run and gone.
C17_CycleRepeats ==
    /\ [][(op[1] = "start" /\ pc[1] = "s_cas" /\ pc'[1] # pc[1])
            => (pc'[1] = "s_spawn" /\ guard_stat' = to_u8("Pending"))]_vars
    /\ (op[1] = "start" /\ pc[1] = "s_need")
            ~> (is_running(get_state) /\ Cardinality(LiveTasks) = 1)
    /\ (op[1] = "stop" /\ pc[1] = "p_store")
            ~> (is_stopped(get_state) /\ LiveTasks = {})
    /\ <>(nspawned = MaxTasks /\ is_stopped(get_state) /\ LiveTasks = {})

C17_Witness ==
    /\ \A t \in Tasks : tpc[t] = "done"
    /\ is_stopped(get_state)
    /\ AllIdle

\* C18: a task whose snapshot configuration is GuardType::None has made no
\* collaborator call, and is not about to make one, in any reachable state.
C18_NoneNeverCallsCollaborator ==
    \A t \in Tasks :
        (Live(t) /\ tcfg[t].guard_type = GT_None)
            => (io[t].call \in {"none", "skip"} /\ tpc[t] # "set")

C18_Witness ==
    \E t \in Tasks :
        /\ tcfg[t].guard_type = GT_None
        /\ tpc[t] = "top"
        /\ io[t] = IoSkip

\* C19: with a Sysproxy or Autoproxy snapshot every tick begins with one get;
\* the set follows if and only if the get succeeded and returned a value
\* different from the snapshot, it is called with the snapshot, and it is
\* called in no other place.
C19_SetIffDifferent ==
    [][\A t \in Tasks : tcfg[t].guard_type.kind \in {"Sysproxy", "Autoproxy"} =>
        /\ (tpc[t] = "wait" /\ tpc'[t] \in {"top", "set"})
            => (CollabCall(t) /\ io'[t].call = "get")
        /\ (CollabCall(t) /\ io'[t].call = "get")
            => /\ tpc'[t] = "set" <=> (io'[t].ok /\ io'[t].v # tcfg[t].guard_type.v)
               /\ tpc'[t] \in {"set", "top"}
        /\ (tpc[t] = "set" /\ tpc'[t] # "set")
            => (CollabCall(t) /\ io'[t].call = "set"
                /\ io'[t].v = tcfg[t].guard_type.v)
        /\ (CollabCall(t) /\ io'[t].call = "set")
            => (tpc[t] = "set" /\ io[t].call = "get" /\ io[t].ok
                /\ io[t].v # tcfg[t].guard_type.v)]_vars

C19_Witness ==
    \E t \in Tasks :
        /\ tcfg[t].guard_type = GT_Autoproxy(1)
        /\ tpc[t] = "top"
        /\ io[t] = IoGet(TRUE, 1)

\* C20: a failed collaborator call leaves the lifecycle state as it is and
\* sends the task back to the top of its loop; the task makes no other call
\* before that, and it goes on to park for its next tick unless the state
\* tells it to leave.
C20_FailureIsSkipped ==
    /\ [][\A t \in Tasks :
            /\ (CollabCall(t) /\ ~io'[t].ok)
                => (guard_stat' = guard_stat /\ tpc'[t] = "top")
            /\ (~io[t].ok /\ io'[t] # io[t]) => io'[t] = NoIo]_vars
    /\ \A t \in Tasks :
            (~io[t].ok) ~> ((tpc[t] = "wait" /\ io[t] = NoIo) \/ ~Live(t))

C20_Witness ==
    \E t \in Tasks :
        /\ io[t].call = "set" /\ ~io[t].ok
        /\ tpc[t] = "top"
        /\ is_running(get_state)

\* C21: a stop() whose entry read of the state is Stopped goes straight to
\* its return; neither step writes the state or wakes a task, so the state is
\* still Stopped unless another thread or a task changes it.
C21_StopIsIdempotent ==
    [][\A th \in Threads :
        /\ (op[th] = "none" /\ op'[th] = "stop" /\ rd'[th] = "Stopped")
            => (pc'[th] = "ret" /\ guard_stat' = guard_stat
                /\ twoken' = twoken /\ tpc' = tpc)
        /\ (op[th] = "stop" /\ rd[th] = "Stopped" /\ pc'[th] # pc[th])
            => (pc'[th] = "idle" /\ guard_stat' = guard_stat
                /\ twoken' = twoken /\ tpc' = tpc)]_vars

C21_Witness ==
    \E a, b \in Threads :
        /\ op[a] = "stop" /\ pc[a] = "ret" /\ rd[a] = "Running"
        /\ op[b] = "stop" /\ pc[b] = "ret" /\ rd[b] = "Stopped"
        /\ is_stopped(get_state)

\* C22: a monitor on which nothing has been called yet is Stopped and has no
\* task, and holds the configuration and interval it was constructed with.
C22_NewIsStopped ==
    (nspawned = 0 /\ AllIdle)
        => /\ is_stopped(get_state)
           /\ ~is_running(get_state) /\ ~is_pendding(get_state)
           /\ ~is_need_restart(get_state)
           /\ LiveTasks = {}
           /\ guard_type \in GuardTypes /\ interval \in Intervals

C22_Witness ==
    /\ nspawned = 0 /\ AllIdle
    /\ guard_type = GT_Autoproxy(1) /\ interval = 100
    /\ is_stopped(get_state)

\* C23: from_u8 maps the codes 0, 1, 2, 3 to Running, Stopped, NeedRestart,
\* Pending and to_u8 maps each of these back to its code; from_u8 maps every
\* code from 4 to 255 to Stopped; so from_u8, and get_state with it, always
\* yields one of the four states.
C23_CodesRoundTrip ==
    /\ get_state \in GuardStates
    /\ conv.value # NoCode =>
        /\ conv.state \in GuardStates
        /\ conv.value \in 0..3 =>
            /\ conv.state = <<"Running", "Stopped", "NeedRestart", "Pending">>[conv.value + 1]
            /\ conv.code # NoCode => conv.code = conv.value
        /\ conv.value \in 4..U8Max => conv.state = "Stopped"

C23_Witness ==
    conv = [value |-> 3, state |-> "Pending", code |-> 3]

\* C24: a task enters the tick branch of its select!, where it reconciles
\* (the collaborator's get, or the skip of a None snapshot), only after one
\* full period has passed since it created its interval.
C24_FirstTickAfterOnePeriod ==
    [][\A t \in Tasks :
        (tpc[t] = "wait" /\ io'[t] # io[t] /\ io'[t] # NoIo) => t \in elapsed]_vars

\* C25: whenever the state is Running, some task has begun run_monitor_loop
\* (it is past its store of Running) and has not yet returned from it.
C25_RunningHasTask ==
    is_running(get_state) => \E t \in Tasks : tpc[t] \notin {"none", "spawned", "done"}

C25_Witness ==
    /\ is_running(get_state)
    /\ tpc[1] = "done"
    /\ tpc[2] = "exit"

\* C26: every step that makes the state Running finds it Pending: the task's
\* store of Running replaces Pending, never Stopped or NeedRestart.
C26_RunningOnlyFromPending ==
    [][(guard_stat' = to_u8("Running") /\ guard_stat # to_u8("Running"))
        => guard_stat = to_u8("Pending")]_vars

\* Task t is in a reconciliation: it has entered the tick branch (the
\* collaborator's get, or the skip of a None snapshot) in this iteration.
Reconciling(t) == io[t].call \in {"get", "skip"}

\* C27: once a stop() has stored Stopped and no other call is in flight or
\* follows, a task that is live terminates, and before that it begins at most
\* one more reconciliation (never a second one in a later iteration).
C27_AtMostOneMoreReconcile ==
    \A th \in Threads, t \in Tasks :
        [](  (op[th] = "stop" /\ pc[th] = "p_notify" /\ NoCallFollows(th) /\ Live(t))
            => /\ <>(~Live(t))
               /\ [](io[t] = NoIo
                        => [](Reconciling(t)
                                => [](io[t] = NoIo => [](~Reconciling(t))))))

\* C28: a task that is live when a stop() has stored Stopped eventually
\* terminates, wherever the task is at that moment and whatever calls follow.
C28_StoppedTaskTerminates ==
    \A th \in Threads, t \in Tasks :
        (op[th] = "stop" /\ pc[th] = "p_notify" /\ rd[th] = "Running" /\ Live(t))
            ~> ~Live(t)

\* C29: a task at the top of its loop that finds the state Stopped or
\* NeedRestart leaves the loop in that step, without parking and without a
\* collaborator call; a task leaves the loop only from that check or from the
\* notified branch of select!, and in both cases its next and last step stores
\* Stopped; a task terminates by no other step.
C29_LoopExitStoresStopped ==
    [][\A t \in Tasks :
        /\ (tpc[t] = "top" /\ tpc'[t] # "top"
                /\ (is_stopped(get_state) \/ is_need_restart(get_state)))
            => (tpc'[t] = "exit" /\ io'[t] = NoIo /\ os' = os)
        /\ (tpc[t] # "exit" /\ tpc'[t] = "exit")
            => \/ tpc[t] = "top" /\ get_state \in {"Stopped", "NeedRestart"}
               \/ tpc[t] = "wait" /\ t \in twoken
        /\ (tpc[t] = "exit" /\ tpc'[t] # "exit")
            => (tpc'[t] = "done" /\ guard_stat' = to_u8("Stopped"))
        /\ (tpc[t] # "done" /\ tpc'[t] = "done") => tpc[t] = "exit"]_vars

C29_Witness ==
    /\ tpc[1] = "exit" /\ tpc[2] = "none"
    /\ is_need_restart(get_state)
    /\ AllIdle

\* C30: the stored configuration and interval change only in the overwrite
\* step of a setter, which every setter call reaches and which leaves its
\* argument in the field it names (and the other field alone) whatever the
\* lifecycle state; no step of start(), stop(), a task or the collaborator
\* changes them.
C30_OnlySettersWriteFields ==
    [][/\ (guard_type' # guard_type \/ interval' # interval)
            => \E th \in Threads :
                /\ op[th] \in {"set_interval", "set_guard_type"}
                /\ pc[th] = "g_write" /\ pc'[th] = "ret"
       /\ \A th \in Threads :
            /\ SetterBegins(th) => pc'[th] \in {"g_store", "g_write"}
            /\ (pc[th] = "g_store" /\ pc'[th] # pc[th]) => pc'[th] = "g_write"
            /\ (pc[th] = "g_write" /\ pc'[th] # pc[th]) =>
                /\ op[th] = "set_interval"
                    => (interval' = arg.v /\ guard_type' = guard_type)
                /\ op[th] = "set_guard_type"
                    => (guard_type' = arg /\ interval' = interval)]_vars

C30_Witness ==
    /\ op[1] = "set_interval" /\ pc[1] = "ret"
    /\ interval = 100
    /\ is_stopped(get_state)
    /\ nspawned = 0

\* C31: once a start() has won the Stopped->Pending compare-exchange and is
\* about to spawn its task, and no other call is in flight or follows, the
\* state eventually becomes Running and stays Running for ever.
C31_StartStaysRunning ==
    \A th \in Threads :
        (op[th] = "start" /\ pc[th] = "s_spawn" /\ NoCallFollows(th))
            ~> [](is_running(get_state))

\* C32: whenever the state is Running, every live task's snapshot equals the
\* configuration and interval the monitor stores now.
C32_RunningSnapshotIsCurrent ==
    is_running(get_state)
        => \A t \in Tasks :
            (Live(t) /\ tcfg[t] # NoConfig) => tcfg[t] = TaskConfig(guard_type, interval)

\* C33: whenever the state is NeedRestart a task is live, and once every call
\* has returned and none follows, a state of NeedRestart leads to Stopped.
C33_NeedRestartNotStranded ==
    /\ [](is_need_restart(get_state) => LiveTasks # {})
    /\ (is_need_restart(get_state) /\ AllReturned) ~> is_stopped(get_state)

\* C34: after a set_system_proxy of a Sysproxy has succeeded, and no other
\* program having changed a key since, a successful get_system_proxy returns
\* that Sysproxy's enable, host and port.
C34_SetThenGetAgrees ==
    (last_set.ok /\ last_get.res = "Ok")
        => /\ last_get.enable = last_set.enable
           /\ last_get.host = last_set.host
           /\ last_get.port = last_set.port

\* C35: a successful get_system_proxy returns the socks host and port when
\* the socks host is not empty, else the https ones when the https host is not
\* empty, else the http ones when the http host is not empty, else the socks
\* ones; its enable tells whether the mode key holds 'manual'.
C35_GetPrefersSocksHttpsHttp ==
    last_get.res = "Ok" =>
        LET db == gsettings_db
            chosen == IF db.socks.host # <<>> THEN db.socks
                      ELSE IF db.https.host # <<>> THEN db.https
                      ELSE IF db.http.host # <<>> THEN db.http
                      ELSE db.socks
        IN  /\ last_get.host = chosen.host
            /\ last_get.port = chosen.port
            /\ last_get.enable = (db.mode = ModeManual)

C35_Witness ==
    /\ last_get.res = "Ok"
    /\ gsettings_db.socks = [host |-> <<>>, port |-> 0]
    /\ gsettings_db.https = [host |-> <<"a">>, port |-> 8080]
    /\ gsettings_db.http = [host |-> <<"b">>, port |-> U16Max]
    /\ last_get.host = <<"a">> /\ last_get.port = 8080
    /\ gsettings_db.mode = ModeAuto /\ ~last_get.enable

\* C36: a Sysproxy port converted to JsSysproxy and back is the port it was,
\* for every port from 0 to 65535; a JavaScript port p converted to Sysproxy
\* (by From<JsSysproxy> or by trigger_manual_proxy) becomes p mod 65536, so a
\* port above 65535 is wrapped and not rejected.
C36_PortRoundTripAndWrap ==
    /\ (napi_conv.from = "Sysproxy" /\ napi_conv.back # NoCode)
        => (napi_conv.back = napi_conv.port
            /\ U32Value(U32(napi_conv.hi, napi_conv.lo)) = napi_conv.port)
    /\ napi_conv.from \in {"JsSysproxy", "trigger_manual_proxy"}
        => (napi_conv.back = napi_conv.port % (U16Max + 1)
            /\ napi_conv.back \in 0..U16Max)

C36_Witness ==
    /\ napi_conv.from = "trigger_manual_proxy"
    /\ napi_conv.port = U16Max + 1 + 8080
    /\ napi_conv.back = 8080

====
